---- MODULE Spec2Model ----
(***************************************************************************)
(* TransformLineageMonad (src/src/transformlineagemonad.py): a tracker    *)
(* that records a stack of 4x4 transformation deltas applied to a solid,  *)
(* with undo and a context manager that unwinds on normal exit.           *)
(*                                                                         *)
(* Python values that the code tests for truthiness are kept as tagged    *)
(* records [tag, v]: a list is [tag |-> "list", v |-> <<...>>], the class *)
(* object `list` (what the dataclass default_factory returns) is          *)
(* [tag |-> "type", v |-> <<>>].  A 4x4 matrix is a tuple of four rows of *)
(* four integers.  A solid is modelled by the only thing the tracker reads *)
(* of it, its origin matrix.                                               *)
(***************************************************************************)
EXTENDS Integers, Sequences, FiniteSets, TLC

VARIABLES monad, exc, scopes, last, mark, observe, twin

vars == <<monad, exc, scopes, last, mark, observe, twin>>

(* ------------------------------ bounds -------------------------------- *)

\* Successful applies are offered only while the stack is shorter than this.
MaxStack == 2

\* with-blocks on the tracker nest at most this deep.
MaxDepth == 1

(* --------------------------- Python values ---------------------------- *)

PyList(v) == [tag |-> "list", v |-> v]

\* The builtin class `list` itself (not an instance).
ListClass == [tag |-> "type", v |-> <<>>]

\* Python truthiness: a class object is truthy, a list is truthy iff non-empty.
Truthy(x) == x.tag = "type" \/ Len(x.v) > 0

IsList(x) == x.tag = "list"

NoExc == "none"

(* ----------------------- 4x4 transform algebra ------------------------ *)

\* cube(1).origin: the identity matrix.
I4 == << <<1, 0, 0, 0>>, <<0, 1, 0, 0>>, <<0, 0, 1, 0>>, <<0, 0, 0, 1>> >>

\* Rotation by 120 degrees about the axis (1,1,1): x -> y -> z -> x.
R3 == << <<0, 0, 1, 0>>, <<1, 0, 0, 0>>, <<0, 1, 0, 0>>, <<0, 0, 0, 1>> >>

\* Mirror in the plane x = y.
MXY == << <<0, 1, 0, 0>>, <<1, 0, 0, 0>>, <<0, 0, 1, 0>>, <<0, 0, 0, 1>> >>

\* Matrix product a * b.
MatMul(a, b) ==
    [i \in 1..4 |-> [j \in 1..4 |->
        a[i][1] * b[1][j] + a[i][2] * b[2][j] + a[i][3] * b[3][j] + a[i][4] * b[4][j]]]

\* Inverse of an affine matrix [R t; 0 1] whose linear part R is orthogonal:
\* [R^T  -R^T t; 0 1].
MatInverse(m) ==
    [i \in 1..4 |-> [j \in 1..4 |->
        IF i = 4 THEN (IF j = 4 THEN 1 ELSE 0)
        ELSE IF j = 4 THEN 0 - (m[1][i] * m[1][4] + m[2][i] * m[2][4] + m[3][i] * m[3][4])
        ELSE m[j][i]]]

\* compose(a, b) of the transform algebra: the matrix product.
multmatrix(a, b) == MatMul(a, b)

\* decompose as right division: the d with compose(d, before) = after.
divmatrix_right(after, before) == MatMul(after, MatInverse(before))

\* decompose(after, before): the delta d with compose(before, d) = after
\* (left division).
divmatrix(after, before) == MatMul(MatInverse(before), after)

\* Solid.divmatrix(m): the solid composed with the inverse of m; only the
\* solid's origin is modelled.
SolidDivmatrix(solid, m) == [origin |-> MatMul(solid.origin, MatInverse(m))]

(* ------------------------------ tracker ------------------------------- *)

\* __checkpoint: int = 1
DefaultCheckpoint == 1

\* __post_init__: fill in a falsy combined_origin / transformation_stack from
\* the solid's origin.  The class object `list` is truthy, so the defaults
\* are left as they are.
post_init(t) ==
    [t EXCEPT
        !.combined_origin =
            IF ~Truthy(t.combined_origin) THEN PyList(t.solid.origin) ELSE @,
        !.transformation_stack =
            IF ~Truthy(t.transformation_stack)
            THEN PyList(Append(@.v, t.solid.origin)) ELSE @]

\* The dataclass constructor followed by __post_init__.
TransformLineageMonad(solid, combined_origin, transformation_stack) ==
    post_init([solid |-> solid,
               combined_origin |-> combined_origin,
               transformation_stack |-> transformation_stack,
               checkpoint |-> DefaultCheckpoint])

\* The default of both list fields: default_factory = lambda : list.
FieldDefault == ListClass

\* A call's outcome: the tracker afterwards, the exception raised (NoExc if
\* none) and the value returned.
Outcome(m, e, ret) == [m |-> m, exc |-> e, ret |-> ret]

NoReturn == [kind |-> "none"]

\* undo_mutably evicting the oldest entry of the stack instead of the
\* newest.
undo_pops_bottom(t) ==
    IF ~Truthy(t.transformation_stack)
    THEN Outcome(t, "IndexError", NoReturn)
    ELSE IF ~IsList(t.transformation_stack)
    THEN Outcome(t, "TypeError", NoReturn)
    ELSE LET stack == t.transformation_stack.v
             evict == stack[1]
             popped == [t EXCEPT !.transformation_stack = PyList(Tail(stack))]
         IN  IF ~IsList(t.combined_origin)
             THEN Outcome(popped, "TypeError", NoReturn)
             ELSE Outcome([popped EXCEPT
                              !.combined_origin = PyList(divmatrix(@.v, evict)),
                              !.solid = SolidDivmatrix(@, evict)],
                          NoExc, [kind |-> "self"])

\* undo_mutably without its empty-stack check: an empty stack is left alone.
undo_unguarded(t) ==
    IF ~Truthy(t.transformation_stack)
    THEN Outcome(t, NoExc, [kind |-> "self"])
    ELSE IF ~IsList(t.transformation_stack)
    THEN Outcome(t, "TypeError", NoReturn)
    ELSE LET stack == t.transformation_stack.v
             evict == stack[Len(stack)]
         IN  Outcome([t EXCEPT
                         !.transformation_stack = PyList(SubSeq(stack, 1, Len(stack) - 1)),
                         !.combined_origin = PyList(divmatrix(@.v, evict)),
                         !.solid = SolidDivmatrix(@, evict)],
                     NoExc, [kind |-> "self"])

\* undo_mutably without line 78: the solid is not moved back.
undo_keeps_solid(t) ==
    IF ~Truthy(t.transformation_stack)
    THEN Outcome(t, "IndexError", NoReturn)
    ELSE IF ~IsList(t.transformation_stack)
    THEN Outcome(t, "TypeError", NoReturn)
    ELSE LET stack == t.transformation_stack.v
             evict == stack[Len(stack)]
         IN  Outcome([t EXCEPT
                         !.transformation_stack = PyList(SubSeq(stack, 1, Len(stack) - 1)),
                         !.combined_origin = PyList(divmatrix(@.v, evict))],
                     NoExc, [kind |-> "self"])

\* undo_mutably working on a copy of the tracker and returning the copy:
\* self is left as it was.
undo_on_copy(t) ==
    IF ~Truthy(t.transformation_stack)
    THEN Outcome(t, "IndexError", NoReturn)
    ELSE IF ~IsList(t.transformation_stack) \/ ~IsList(t.combined_origin)
    THEN Outcome(t, "TypeError", NoReturn)
    ELSE Outcome(t, NoExc, [kind |-> "copy"])

\* undo_mutably
undo_mutably(t) ==
    IF ~Truthy(t.transformation_stack)
    THEN Outcome(t, "IndexError", NoReturn)
    ELSE IF ~IsList(t.transformation_stack)
    THEN \* list.pop() on the class: unbound method needs an argument
         Outcome(t, "TypeError", NoReturn)
    ELSE LET stack == t.transformation_stack.v
             evict == stack[Len(stack)]
             popped == [t EXCEPT !.transformation_stack =
                            PyList(SubSeq(stack, 1, Len(stack) - 1))]
         IN  IF ~IsList(t.combined_origin)
             THEN Outcome(popped, "TypeError", NoReturn)
             ELSE Outcome([popped EXCEPT
                              !.combined_origin = PyList(divmatrix(@.v, evict)),
                              !.solid = SolidDivmatrix(@, evict)],
                          NoExc, [kind |-> "self"])

\* __component_matrix_naive: the delta between the frames of the solid held
\* and of its replacement, whatever combined_origin is.
component_matrix_naive(t, replacement) ==
    divmatrix(replacement.origin, t.solid.origin)

\* __component_matrix with the arguments of divmatrix exchanged.
component_matrix_swapped(t, replacement) ==
    divmatrix(t.combined_origin.v, replacement.origin)

\* __component_matrix
component_matrix(t, replacement) ==
    divmatrix(replacement.origin, t.combined_origin.v)

\* The override delta is never used: the delta is always inferred.
NeverOverride(override) == FALSE

\* Whether the override delta of a ResultWithDelta is used
\* (`if not override_delta_transform_matrix`).
UseOverride(override) == Truthy(override)

\* getattr(x, 'origin') succeeds: x is a solid.
HasOrigin(x) == "origin" \in DOMAIN x

\* `post_transform[0]` falling back on a unit solid at the origin when the
\* value cannot be indexed.
first_or_unit(res) ==
    IF res.kind = "None" \/ Len(res.items) = 0
    THEN [exc |-> NoExc, v |-> [origin |-> I4]]
    ELSE [exc |-> NoExc, v |-> res.items[1]]

\* `post_transform[0]` of a value that is neither a solid nor a
\* ResultWithDelta: the exception it raises (NoExc if none) and its value.
first_element(res) ==
    IF res.kind = "None"
    THEN [exc |-> "TypeError", v |-> <<>>]
    ELSE IF Len(res.items) = 0
    THEN [exc |-> "IndexError", v |-> <<>>]
    ELSE [exc |-> NoExc, v |-> res.items[1]]

\* The delta put in front of the stack instead of at its end.
prepend_delta(t, delta, replacement) ==
    [t EXCEPT !.transformation_stack = PyList(<<delta>> \o @.v),
              !.combined_origin = PyList(multmatrix(@.v, delta)),
              !.solid = replacement]

\* The three assignments that end apply_mutably: the delta is appended to
\* the stack and composed onto combined_origin, the solid is replaced.
append_delta(t, delta, replacement) ==
    [t EXCEPT !.transformation_stack = PyList(Append(@.v, delta)),
              !.combined_origin = PyList(multmatrix(@.v, delta)),
              !.solid = replacement]

\* transform_func raising after the solid has been given up.
transform_raised_late(t) ==
    Outcome([t EXCEPT !.solid = [origin |-> I4]], "OpError", NoReturn)

\* transform_func(self.solid) raising: nothing has been assigned yet.
transform_raised(t) ==
    Outcome(t, "OpError", NoReturn)

\* apply_mutably, given what transform_func(self.solid) did: `res` is
\*   [kind |-> "raise"]                              the function raised
\*   [kind |-> "Openscad", solid]                    a native solid
\*   [kind |-> "ResultWithDelta", solid, delta, results]
\*   [kind |-> "list", items]                        a list (possibly empty)
\*   [kind |-> "dict", items]                        a dict, items[1] under key 0
\*   [kind |-> "None"]                               None
\* The tuple returned is (self, post_transform): first |-> "self".
apply_mutably(t, res) ==
    IF res.kind = "raise"
    THEN transform_raised(t)
    ELSE IF res.kind \in {"list", "dict", "None"} /\ first_element(res).exc # NoExc
    THEN Outcome(t, first_element(res).exc, NoReturn)
    ELSE LET replacement ==
                 IF res.kind \in {"list", "dict", "None"}
                 THEN first_element(res).v ELSE res.solid
             override ==
                 IF res.kind = "ResultWithDelta" THEN res.delta
                 ELSE [tag |-> "none", v |-> <<>>]
             post_transform ==
                 CASE res.kind = "Openscad" -> <<res.solid>>
                   [] res.kind = "ResultWithDelta" -> res.results
                   [] res.kind \in {"list", "dict"} -> res.items
                   [] OTHER -> <<>>
         IN  IF ~UseOverride(override) /\ ~HasOrigin(replacement)
             THEN \* replacement.origin
                  Outcome(t, "AttributeError", NoReturn)
             ELSE IF ~UseOverride(override) /\ ~IsList(t.combined_origin)
             THEN \* divmatrix(replacement.origin, <class list>)
                  Outcome(t, "TypeError", NoReturn)
             ELSE IF ~IsList(t.transformation_stack)
             THEN \* list.append(delta) on the class
                  Outcome(t, "TypeError", NoReturn)
             ELSE LET delta == IF ~UseOverride(override)
                               THEN component_matrix(t, replacement)
                               ELSE override.v
                      pushed == [t EXCEPT !.transformation_stack =
                                     PyList(Append(@.v, delta))]
                  IN  IF ~IsList(t.combined_origin)
                      THEN Outcome(pushed, "TypeError", NoReturn)
                      ELSE Outcome(append_delta(t, delta, replacement),
                                   NoExc,
                                   [kind |-> "tuple", first |-> "self",
                                    native |-> res.kind = "Openscad",
                                    rest |-> post_transform])

\* __enter__ remembering one entry less than the stack holds.
enter_checkpoint_short(t) ==
    IF ~IsList(t.transformation_stack)
    THEN Outcome(t, "TypeError", NoReturn)
    ELSE Outcome([t EXCEPT !.checkpoint = Len(t.transformation_stack.v) - 1],
                 NoExc, [kind |-> "self"])

\* __enter__ handing the block a copy of the tracker.
enter_returns_copy(t) ==
    IF ~IsList(t.transformation_stack)
    THEN Outcome(t, "TypeError", NoReturn)
    ELSE Outcome([t EXCEPT !.checkpoint = Len(t.transformation_stack.v)],
                 NoExc, [kind |-> "copy"])

\* __enter__
__enter__(t) ==
    IF ~IsList(t.transformation_stack)
    THEN \* len() of the class
         Outcome(t, "TypeError", NoReturn)
    ELSE Outcome([t EXCEPT !.checkpoint = Len(t.transformation_stack.v)],
                 NoExc, [kind |-> "self"])

\* The unwind loop of __exit__: `for _ in range(count): self.undo_mutably()`.
\* Yields the tracker, the exception that ended the loop (NoExc if none) and
\* the number of undo_mutably calls made.
RECURSIVE Unwind(_, _, _)
Unwind(t, count, calls) ==
    IF count <= 0
    THEN [m |-> t, exc |-> NoExc, calls |-> calls]
    ELSE LET u == undo_mutably(t)
         IN  IF u.exc # NoExc
             THEN [m |-> u.m, exc |-> u.exc, calls |-> calls + 1]
             ELSE Unwind(u.m, count - 1, calls + 1)

\* __exit__ answering "handled" when an exception is in flight.
ExitSwallows == TRUE

\* What __exit__ answers when an exception is in flight (line 146).
ExitOnError == FALSE

\* __exit__ without its exception check: it unwinds on every exit.
exit_always_unwinds(t, e) ==
    LET count == Len(t.transformation_stack.v) - t.checkpoint
        w == Unwind(t, count, 0)
    IN  [m |-> w.m, exc |-> w.exc, ret |-> e = NoExc, calls |-> w.calls]

\* __exit__ unwinding the whole stack on normal exit.
exit_unwinds_all(t, e) ==
    IF e # NoExc
    THEN [m |-> t, exc |-> NoExc, ret |-> ExitOnError, calls |-> 0]
    ELSE LET w == Unwind(t, Len(t.transformation_stack.v), 0)
         IN  [m |-> w.m, exc |-> w.exc, ret |-> TRUE, calls |-> w.calls]

\* __exit__ unwinding as many entries as the stack length differs from the
\* checkpoint, in either direction.
exit_unwinds_distance(t, e) ==
    IF e # NoExc
    THEN [m |-> t, exc |-> NoExc, ret |-> ExitOnError, calls |-> 0]
    ELSE LET d == Len(t.transformation_stack.v) - t.checkpoint
             w == Unwind(t, IF d < 0 THEN -d ELSE d, 0)
         IN  [m |-> w.m, exc |-> w.exc, ret |-> TRUE, calls |-> w.calls]

\* __exit__ unwinding one transformation too few.
exit_stops_early(t, e) ==
    IF e # NoExc
    THEN [m |-> t, exc |-> NoExc, ret |-> ExitOnError, calls |-> 0]
    ELSE LET count == Len(t.transformation_stack.v) - t.checkpoint - 1
             w == Unwind(t, count, 0)
         IN  [m |-> w.m, exc |-> w.exc, ret |-> TRUE, calls |-> w.calls]

\* __exit__(exc_type, exc_val, exc_tb); `e` is the exception in flight in the
\* block (NoExc on normal exit).  ret is the value returned to the with
\* statement, exc an exception raised by __exit__ itself.
__exit__(t, e) ==
    IF e # NoExc
    THEN [m |-> t, exc |-> NoExc, ret |-> ExitOnError, calls |-> 0]
    ELSE LET count == Len(t.transformation_stack.v) - t.checkpoint
             w == Unwind(t, count, 0)
         IN  [m |-> w.m, exc |-> w.exc, ret |-> TRUE, calls |-> w.calls]

\* clone passing its own lists on instead of copies of them.
clone_shallow(t) ==
    IF ~IsList(t.transformation_stack) \/ ~IsList(t.combined_origin)
    THEN Outcome(t, "TypeError", NoReturn)
    ELSE Outcome(t, NoExc,
                 [kind |-> "new", shared |-> TRUE,
                  obj |-> TransformLineageMonad(t.solid, t.combined_origin,
                                                t.transformation_stack)])

\* clone: new_stack and new_origin are fresh lists holding copies of the
\* rows; the solid is passed on as it is.  The constructor runs
\* __post_init__ on the new tracker.  ret.shared: the new tracker's
\* transformation_stack is the same list object as self's.
clone(t) ==
    IF ~IsList(t.transformation_stack) \/ ~IsList(t.combined_origin)
    THEN \* iterating over the class `list`
         Outcome(t, "TypeError", NoReturn)
    ELSE LET new_stack == [i \in 1..Len(t.transformation_stack.v) |->
                              [r \in 1..4 |-> t.transformation_stack.v[i][r]]]
             new_origin == [r \in 1..Len(t.combined_origin.v) |-> t.combined_origin.v[r]]
         IN  Outcome(t, NoExc,
                     [kind |-> "new", shared |-> FALSE,
                      obj |-> TransformLineageMonad(t.solid, PyList(new_origin),
                                                    PyList(new_stack))])

(* ------------------- what transform_func can return ------------------- *)

\* Origins the engine may report for a solid, and deltas an operation may
\* declare: a rotation and a mirror that do not commute.
Origins == {R3, MXY}

Solids == {[origin |-> o] : o \in Origins}

\* Pass-through values of an operation.
Aux == [aux |-> "a"]

\* delta_transform_matrix of a ResultWithDelta: a matrix or an empty list.
OverrideDeltas == {PyList(d) : d \in Origins} \cup {PyList(<<>>)}

OpResults ==
    {[kind |-> "raise"]}
    \cup {[kind |-> "Openscad", solid |-> s] : s \in Solids}
    \cup {[kind |-> "ResultWithDelta", solid |-> s, delta |-> d, results |-> <<Aux>>] :
            s \in Solids, d \in OverrideDeltas}
    \cup {[kind |-> "list", items |-> <<s, Aux>>] : s \in Solids}

\* A function that rotates the solid into one frame, or raises.
BareResults ==
    {[kind |-> "raise"], [kind |-> "Openscad", solid |-> [origin |-> R3]]}

\* Values that are neither a solid, nor a ResultWithDelta, nor a list whose
\* first element is a solid: None, the empty list, a list that starts with
\* something else, and a dict that holds a solid under the key 0.
OddResults ==
    {[kind |-> "None"], [kind |-> "list", items |-> <<>>]}
    \cup {[kind |-> "list", items |-> <<Aux, s>>] : s \in Solids}
    \cup {[kind |-> "dict", items |-> <<s>>] : s \in Solids}

\* Vectors of the translations tried, and how many of them are stacked on
\* the entry the constructor seeds.
Moves == {<<5, 0, 0>>, <<0, 3, 0>>, <<0, 0, 2>>}

MaxMoves == 2

\* to_matrix writing the vector into the bottom row.
to_matrix_bottom_row(vec) ==
    << <<1, 0, 0, 0>>, <<0, 1, 0, 0>>, <<0, 0, 1, 0>>, <<vec[1], vec[2], vec[3], 1>> >>

\* ztools.to_matrix
to_matrix(vec) ==
    << <<1, 0, 0, vec[1]>>, <<0, 1, 0, vec[2]>>, <<0, 0, 1, vec[3]>>, <<0, 0, 0, 1>> >>

\* ztools.to_translation_vector
to_translation_vector(matrix) == <<matrix[1][4], matrix[2][4], matrix[3][4]>>

\* solid.translate(vec): the solid with its frame composed with the
\* translation.
translate(solid, vec) == [origin |-> multmatrix(solid.origin, to_matrix(vec))]

(* --------------------------- state machine ---------------------------- *)

\* monad    the tracker object
\* exc      the exception in flight in the caller (NoExc if none)
\* scopes   the with-blocks currently open on the tracker, outermost first
\* last     the last call made: its name, argument, exception and return value
\* observe  which further history a behaviour records, fixed at the start:
\*          "calls": none;
\*          "scope": each open block remembers, as long as nothing but
\*                   successful applies has been called in it, the tracker
\*                   as __enter__ left it and the number of those applies;
\*          "run":   mark follows a run of successful applies followed by
\*                   undos: the tracker before the first apply of the run,
\*                   the applies and undos made, and whether every apply
\*                   of the run recorded the frame change of its solid;
\*          "nest":  every open block remembers the stack length __enter__
\*                   saw and whether a with-block was entered inside it;
\*          "twin":  none (the clone is state, not history);
\*          "translate": an undo remembers the entry it evicted;
\*          "algebra": no tracker at all: last holds the last call of the
\*                   transform algebra, its arguments and its value, and
\*                   mark.ups the number of operations chained on a value
\* twin     the tracker clone() returned (on: there is one), and whether its
\*          transformation_stack is the same list object as monad's (shared)

NoEntry == [solid |-> [origin |-> <<>>], combined_origin |-> PyList(<<>>),
            transformation_stack |-> PyList(<<>>), checkpoint |-> 0]

\* len: the stack length __enter__ saw; pure: nothing but successful applies
\* has been called in the block (no undo, no nested with-block); entry and
\* applies: the tracker as __enter__ left it and the applies made since,
\* kept while the block is pure.  Calls made in a nested block are made in
\* the enclosing blocks too.  flat: no with-block was entered in the block.
Frame(entry, len, pure) ==
    [entry |-> entry, len |-> len, applies |-> 0, pure |-> pure, flat |-> TRUE]

\* A block of which nothing is recorded.
Blank == Frame(NoEntry, 0, FALSE)

NoMark == [on |-> FALSE, base |-> NoEntry, ups |-> 0, downs |-> 0, framed |-> FALSE]

\* The record of a call.  calls: the undo_mutably calls __exit__ made; block:
\* what was recorded of the block __exit__ closed.
Call(op, arg, e, ret, calls, block) ==
    [op |-> op, arg |-> arg, exc |-> e, ret |-> ret, calls |-> calls,
     block |-> [pure |-> block.pure, applies |-> block.applies,
                len |-> block.len, flat |-> block.flat]]

NoArg == [kind |-> "none"]

StackLen(t) == Len(t.transformation_stack.v)

Depth == Len(scopes)

Top == scopes[Depth]

\* The open blocks with one more apply counted / no longer pure.
CountApply ==
    [i \in 1..Depth |->
        IF scopes[i].pure THEN [scopes[i] EXCEPT !.applies = @ + 1] ELSE scopes[i]]

Spoil == [i \in 1..Depth |-> Blank]

\* The history kept in "nest" mode: every open block keeps the stack length
\* __enter__ saw (len) and whether no with-block was entered inside it
\* (flat); pure says that nothing has happened in it but successful applies
\* and with-blocks that ended normally, and applies counts the applies made
\* directly in it while it is pure.

\* The open blocks with one more apply made in the innermost.
CountTop ==
    [i \in 1..Depth |->
        IF i = Depth /\ scopes[i].pure
        THEN [scopes[i] EXCEPT !.applies = @ + 1] ELSE scopes[i]]

\* The open blocks once something else has happened in them.
Impure == [i \in 1..Depth |-> [scopes[i] EXCEPT !.pure = FALSE, !.applies = 0]]

\* The open blocks once a with-block has been entered inside them.
Enclosing == [i \in 1..Depth |-> [scopes[i] EXCEPT !.flat = FALSE]]

\* with-blocks are examined one level deeper in "nest" mode.
DepthBound == IF observe = "nest" THEN MaxDepth + 1 ELSE MaxDepth

\* No second tracker.
NoTwin == [on |-> FALSE, m |-> NoEntry, shared |-> FALSE]

\* Tracker `other` after a call left tracker t as it is now: if both hold
\* the same list object as transformation_stack, the appends and pops made
\* through t are made to other's stack too.
Aliased(shared, other, t) ==
    IF shared THEN [other EXCEPT !.transformation_stack = t.transformation_stack]
    ELSE other

TwinAfter(t) == [twin EXCEPT !.m = Aliased(twin.shared, @, t)]

\* A successful apply took tracker t to u: the delta it recorded is the change
\* from the origin of t's solid to the origin of u's.
RecordsFrameChange(t, u) ==
    u.solid.origin = multmatrix(t.solid.origin, u.transformation_stack.v[StackLen(u)])

Create(obs) ==
    \E s \in Solids, given \in {"default", "empty"} :
        /\ monad = IF given = "default"
                   THEN TransformLineageMonad(s, FieldDefault, FieldDefault)
                   ELSE TransformLineageMonad(s, PyList(<<>>), PyList(<<>>))
        /\ exc = NoExc
        /\ scopes = <<>>
        /\ last = Call("create", [kind |-> given], NoExc, NoReturn, 0, Blank)
        /\ mark = NoMark
        /\ observe = obs
        /\ twin = NoTwin

Init == Create("calls")

InitScope == Create("scope")

InitRun == Create("run")

\* monad.apply_mutably(transform_func), transform_func yielding res
Apply(res) ==
    /\ exc = NoExc
    /\ \/ res.kind = "raise"
       \/ ~IsList(monad.transformation_stack)
       \/ StackLen(monad) < MaxStack
    /\ \E o \in {apply_mutably(monad, res)} :
           /\ monad' = o.m
           /\ twin' = TwinAfter(o.m)
           /\ exc' = o.exc
           /\ last' = Call("apply", res, o.exc, o.ret, 0, Blank)
           /\ IF o.exc = NoExc
              THEN /\ scopes' = IF observe = "nest" THEN CountTop ELSE CountApply
                   /\ IF observe # "run" THEN mark' = mark
                      ELSE \/ /\ mark.on /\ mark.downs = 0
                              /\ mark' = [mark EXCEPT !.ups = @ + 1,
                                             !.framed = @ /\ RecordsFrameChange(monad, o.m)]
                           \/ mark' = [on |-> TRUE, base |-> monad, ups |-> 1, downs |-> 0,
                                       framed |-> RecordsFrameChange(monad, o.m)]
              ELSE UNCHANGED <<scopes, mark>>
    /\ UNCHANGED observe

\* What "translate" mode remembers of an undo: the entry on top of the stack
\* when it was called.
Evicted(t) ==
    IF observe = "translate" /\ IsList(t.transformation_stack) /\ StackLen(t) > 0
    THEN [kind |-> "evict", delta |-> t.transformation_stack.v[StackLen(t)]]
    ELSE NoArg

\* monad.undo_mutably()
Undo ==
    /\ exc = NoExc
    /\ \E o \in {undo_mutably(monad)} :
           /\ monad' = o.m
           /\ twin' = TwinAfter(o.m)
           /\ exc' = o.exc
           /\ last' = Call("undo", Evicted(monad), o.exc, o.ret, 0, Blank)
           /\ IF o.exc = NoExc
              THEN /\ scopes' = IF observe = "nest" THEN Impure ELSE Spoil
                   /\ mark' = IF mark.on /\ mark.downs < mark.ups
                              THEN [mark EXCEPT !.downs = @ + 1]
                              ELSE NoMark
              ELSE UNCHANGED <<scopes, mark>>
    /\ UNCHANGED observe

\* `with monad as dum:` -- __enter__; the block is entered only if it returns.
Enter ==
    /\ exc = NoExc
    /\ Depth < DepthBound
    /\ \E o \in {__enter__(monad)} :
           /\ monad' = o.m
           /\ exc' = o.exc
           /\ last' = Call("enter", NoArg, o.exc, o.ret, 0, Blank)
           /\ mark' = NoMark
           /\ scopes' =
                IF o.exc # NoExc THEN scopes
                ELSE IF observe = "nest"
                THEN Append(Enclosing, Frame(NoEntry, StackLen(o.m), TRUE))
                ELSE Append(Spoil,
                            IF observe = "scope"
                            THEN Frame(o.m, StackLen(o.m), TRUE) ELSE Blank)
    /\ UNCHANGED <<observe, twin>>

\* The end of the innermost with-block: __exit__ is called with the exception
\* in flight, which is swallowed iff __exit__ returns a true value.
Exit ==
    /\ Depth > 0
    /\ \E r \in {__exit__(monad, exc)} :
           /\ monad' = r.m
           /\ exc' = IF r.exc # NoExc THEN r.exc
                     ELSE IF exc # NoExc /\ ~r.ret THEN exc
                     ELSE NoExc
           /\ last' = Call("exit", [kind |-> exc], r.exc, [kind |-> "bool", b |-> r.ret],
                           r.calls, Top)
           /\ mark' = NoMark
           /\ twin' = TwinAfter(r.m)
           /\ scopes' = SubSeq(IF observe = "nest" /\ exc # NoExc THEN Impure ELSE scopes,
                               1, Depth - 1)
    /\ UNCHANGED observe

\* The caller's own try/except catches the exception in flight.
Catch ==
    /\ exc # NoExc
    /\ exc' = NoExc
    /\ last' = Call("catch", [kind |-> exc], NoExc, NoReturn, 0, Blank)
    /\ scopes' = IF observe = "nest" THEN Impure ELSE scopes
    /\ UNCHANGED <<monad, mark, observe, twin>>

Next ==
    \/ \E res \in OpResults : Apply(res)
    \/ Undo
    \/ Enter
    \/ Exit
    \/ Catch

Spec == Init /\ [][Next]_vars

SpecScope == InitScope /\ [][Next]_vars

\* The tracker driven by apply_mutably and undo_mutably alone.  (__enter__
\* only sets the checkpoint, which neither of them reads, and __exit__ only
\* calls undo_mutably.)
NextRun ==
    \/ \E res \in OpResults : Apply(res)
    \/ Undo
    \/ Catch

SpecRun == InitRun /\ [][NextRun]_vars

\* The structural match of apply_mutably tried on every kind of value.
NextShapes ==
    \/ \E res \in OpResults \cup OddResults : Apply(res)
    \/ Undo
    \/ Catch

SpecShapes == Init /\ [][NextShapes]_vars

\* twin_ = monad.clone(), made once
Clone ==
    /\ exc = NoExc
    /\ ~twin.on
    /\ \E o \in {clone(monad)} :
           /\ exc' = o.exc
           /\ last' = Call("clone", NoArg, o.exc, [kind |-> o.ret.kind], 0, Blank)
           /\ IF o.exc = NoExc
              THEN /\ twin' = [on |-> TRUE, m |-> o.ret.obj, shared |-> o.ret.shared]
                   /\ monad' = Aliased(o.ret.shared, o.m, o.ret.obj)
              ELSE /\ twin' = twin
                   /\ monad' = o.m
    /\ UNCHANGED <<scopes, mark, observe>>

\* twin_.apply_mutably(transform_func)
ApplyTwin(res) ==
    /\ exc = NoExc
    /\ twin.on
    /\ res.kind = "raise" \/ StackLen(twin.m) < MaxStack
    /\ \E o \in {apply_mutably(twin.m, res)} :
           /\ twin' = [twin EXCEPT !.m = o.m]
           /\ monad' = Aliased(twin.shared, monad, o.m)
           /\ exc' = o.exc
           /\ last' = Call("twin.apply", res, o.exc, o.ret, 0, Blank)
    /\ UNCHANGED <<scopes, mark, observe>>

\* twin_.undo_mutably()
UndoTwin ==
    /\ exc = NoExc
    /\ twin.on
    /\ \E o \in {undo_mutably(twin.m)} :
           /\ twin' = [twin EXCEPT !.m = o.m]
           /\ monad' = Aliased(twin.shared, monad, o.m)
           /\ exc' = o.exc
           /\ last' = Call("twin.undo", NoArg, o.exc, o.ret, 0, Blank)
    /\ UNCHANGED <<scopes, mark, observe>>

InitTwin == Create("twin")

\* A tracker and its clone, each driven by apply_mutably and undo_mutably.
NextTwin ==
    \/ \E res \in BareResults : Apply(res)
    \/ Undo
    \/ Catch
    \/ Clone
    \/ \E res \in BareResults : ApplyTwin(res)
    \/ UndoTwin

SpecTwin == InitTwin /\ [][NextTwin]_vars

InitNest == Create("nest")

\* with-blocks inside with-blocks on one tracker.
NextNest ==
    \/ \E res \in BareResults : Apply(res)
    \/ Undo
    \/ Enter
    \/ Exit
    \/ Catch

SpecNest == InitNest /\ [][NextNest]_vars

\* A tracker around a solid at the identity frame.
InitTranslate ==
    \E given \in {"default", "empty"} :
        /\ monad = IF given = "default"
                   THEN TransformLineageMonad([origin |-> I4], FieldDefault, FieldDefault)
                   ELSE TransformLineageMonad([origin |-> I4], PyList(<<>>), PyList(<<>>))
        /\ exc = NoExc
        /\ scopes = <<>>
        /\ last = Call("create", [kind |-> given], NoExc, NoReturn, 0, Blank)
        /\ mark = NoMark
        /\ observe = "translate"
        /\ twin = NoTwin

\* monad.apply_mutably(lambda solid: solid.translate(vec))
Translate(vec) ==
    /\ exc = NoExc
    /\ ~IsList(monad.transformation_stack) \/ StackLen(monad) < MaxMoves + 1
    /\ \E o \in {apply_mutably(monad, [kind |-> "Openscad",
                                       solid |-> translate(monad.solid, vec)])} :
           /\ monad' = o.m
           /\ exc' = o.exc
           /\ last' = Call("apply", [kind |-> "translate", vec |-> vec],
                           o.exc, o.ret, 0, Blank)
    /\ UNCHANGED <<scopes, mark, observe, twin>>

NextTranslate ==
    \/ \E vec \in Moves : Translate(vec)
    \/ Undo
    \/ Catch

SpecTranslate == InitTranslate /\ [][NextTranslate]_vars

\* The transform algebra on its own.  A value is obtained from a solid's
\* origin, from cube(1).origin or from to_matrix, and then composed with or
\* divided by operands, at most MaxOps times.
MaxOps == 2

Operands == {I4} \cup Origins \cup {to_matrix(vec) : vec \in Moves}

Matrix(m) == [kind |-> "matrix", m |-> m]

Chained(n) == [NoMark EXCEPT !.ups = n]

Evaluated(op, arg, ret, n) ==
    /\ last' = Call(op, arg, NoExc, ret, 0, Blank)
    /\ mark' = Chained(n)
    /\ UNCHANGED <<monad, exc, scopes, observe, twin>>

InitAlgebra ==
    /\ monad = NoEntry
    /\ exc = NoExc
    /\ scopes = <<>>
    /\ last = Call("identity", NoArg, NoExc, Matrix(I4), 0, Blank)
    /\ mark = Chained(0)
    /\ observe = "algebra"
    /\ twin = NoTwin

\* cube(1).origin
Identity ==
    /\ observe = "algebra"
    /\ Evaluated("identity", NoArg, Matrix(I4), 0)

\* solid.origin
ReadOrigin(solid) ==
    /\ observe = "algebra"
    /\ Evaluated("origin", [kind |-> "solid"], Matrix(solid.origin), 0)

\* to_matrix(vec)
ToMatrix(vec) ==
    /\ observe = "algebra"
    /\ Evaluated("to_matrix", [kind |-> "vec", v |-> vec], Matrix(to_matrix(vec)), 0)

\* to_translation_vector(value)
ToTranslationVector ==
    /\ last.ret.kind = "matrix"
    /\ Evaluated("to_translation_vector", [kind |-> "matrix", a |-> last.ret.m],
                 [kind |-> "vec", v |-> to_translation_vector(last.ret.m)], mark.ups)

\* multmatrix(value, b)
Compose(b) ==
    /\ last.ret.kind = "matrix"
    /\ mark.ups < MaxOps
    /\ Evaluated("multmatrix", [kind |-> "pair", a |-> last.ret.m, b |-> b],
                 Matrix(multmatrix(last.ret.m, b)), mark.ups + 1)

\* divmatrix(value, b)
Decompose(b) ==
    /\ last.ret.kind = "matrix"
    /\ mark.ups < MaxOps
    /\ Evaluated("divmatrix", [kind |-> "pair", a |-> last.ret.m, b |-> b],
                 Matrix(divmatrix(last.ret.m, b)), mark.ups + 1)

NextAlgebra ==
    \/ Identity
    \/ \E solid \in Solids : ReadOrigin(solid)
    \/ \E vec \in Moves : ToMatrix(vec)
    \/ ToTranslationVector
    \/ \E b \in Operands : Compose(b)
    \/ \E b \in Operands : Decompose(b)

SpecAlgebra == InitAlgebra /\ [][NextAlgebra]_vars

(* ------------------------------ claims -------------------------------- *)

\* The step is the normal / abnormal end of a with-block.
ExitsNormally == Depth > 0 /\ exc = NoExc /\ last'.op = "exit"

ExitsOnError == Depth > 0 /\ exc # NoExc /\ last'.op = "exit"

\* The left-to-right product of the deltas of a stack (identity when empty).
RECURSIVE Product(_)
Product(stack) ==
    IF Len(stack) = 0 THEN I4
    ELSE multmatrix(Product(SubSeq(stack, 1, Len(stack) - 1)), stack[Len(stack)])

\* C1 (as claimed): a with-block in which only successful applies are made
\* and which ends normally leaves the solid's origin and combined_origin as
\* they were at __enter__.
C1_ScopedUndoRestores ==
    [][(ExitsNormally /\ Top.pure) =>
          /\ monad'.solid.origin = Top.entry.solid.origin
          /\ monad'.combined_origin = Top.entry.combined_origin]_vars

\* C2: a with-block in which exactly n applies succeed (no undo, no nested
\* block) and which ends normally makes exactly n undo_mutably calls, none of
\* which fails, and leaves the stack as it was at __enter__: the same length,
\* the same entries in the same order.
C2_StackDepthOnNormalExit ==
    [][(ExitsNormally /\ Top.pure) =>
          /\ last'.calls = Top.applies
          /\ last'.exc = NoExc
          /\ StackLen(monad') = StackLen(monad) - Top.applies
          /\ StackLen(monad') = StackLen(Top.entry)
          /\ monad'.transformation_stack = Top.entry.transformation_stack]_vars

\* A block with two applies was unwound on normal exit.
C2_Witness ==
    /\ last.op = "exit" /\ last.arg.kind = NoExc
    /\ last.block.pure /\ last.block.applies = 2 /\ last.calls = 2

\* C3: when an exception is in flight at the end of a with-block, __exit__
\* calls undo_mutably not once and leaves the tracker (stack, combined_origin,
\* solid) exactly as it was; after n successful applies in the block the
\* stack length is the checkpoint plus n.
C3_NoUnwindOnError ==
    [][ExitsOnError =>
          /\ last'.calls = 0
          /\ monad' = monad
          /\ Top.pure =>
                /\ Top.entry.checkpoint = StackLen(Top.entry)
                /\ StackLen(monad') = Top.entry.checkpoint + Top.applies]_vars

\* A block was left by an exception after two applies, which are still on
\* the stack.
C3_Witness ==
    /\ last.op = "exit" /\ last.arg.kind = "OpError"
    /\ last.block.pure /\ last.block.applies = 2
    /\ StackLen(monad) = monad.checkpoint + 2

\* C4: when an exception is in flight at the end of a with-block, __exit__
\* returns False and the same exception is in flight after the block.
C4_ErrorNotSwallowed ==
    [][ExitsOnError =>
          /\ last'.ret = [kind |-> "bool", b |-> FALSE]
          /\ exc' = exc]_vars

\* A block was left by an exception, which is still in flight.
C4_Witness ==
    /\ last.op = "exit" /\ last.arg.kind # NoExc
    /\ exc = last.arg.kind

\* C5 (as claimed): whenever the tracker's fields are lists, combined_origin
\* is the left-to-right product of the deltas on the stack.
C5_ComposedOriginIsProduct ==
    (IsList(monad.combined_origin) /\ IsList(monad.transformation_stack)) =>
        monad.combined_origin.v = Product(monad.transformation_stack.v)

\* A run of k >= 1 successful applies has been followed by k undos.
RunUndone == mark.on /\ mark.ups = mark.downs

\* C6 (as claimed): after k successful applies followed by k undos,
\* combined_origin and the stack are what they were before the run.
C6_RoundTripBookkeeping ==
    RunUndone =>
        /\ monad.combined_origin = mark.base.combined_origin
        /\ monad.transformation_stack = mark.base.transformation_stack

\* C7 (as claimed): after k successful applies followed by k undos, the
\* solid's origin is what it was before the run.
C7_RoundTripSolid ==
    RunUndone => monad.solid.origin = mark.base.solid.origin

\* C7 (amended): after k successful applies each of which recorded the
\* change of its solid's origin (replacement origin = previous origin
\* composed with the recorded delta), followed by k undos, the solid's origin
\* is what it was before the run.
C7_RoundTripSolidFramed ==
    (RunUndone /\ mark.framed) => monad.solid.origin = mark.base.solid.origin

\* Two applies that each recorded the frame change of their solid were
\* undone: the solid's origin is back where the run began, although
\* combined_origin is not.
C7_Witness ==
    /\ RunUndone /\ mark.framed /\ mark.ups = 2
    /\ monad.solid.origin = mark.base.solid.origin
    /\ monad.combined_origin # mark.base.combined_origin

\* The last call was an apply whose function returned a ResultWithDelta
\* carrying a matrix, and it succeeded.
AppliedTagged ==
    /\ last.op = "apply" /\ last.exc = NoExc
    /\ last.arg.kind = "ResultWithDelta"
    /\ Len(last.arg.delta.v) = 4

\* The delta the last apply would have inferred: the origin of its solid
\* divided by combined_origin as it was before the call.
InferredByLast ==
    LET top == monad.transformation_stack.v[StackLen(monad)]
        before == MatMul(monad.combined_origin.v, MatInverse(top))
    IN  divmatrix(monad.solid.origin, before)

\* C8: when transform_func returns a ResultWithDelta carrying matrix d, the
\* entry apply pushes on the stack is d, whatever origin the replacement
\* solid reports.
C8_OverridePrecedence ==
    AppliedTagged =>
        /\ StackLen(monad) > 0
        /\ monad.transformation_stack.v[StackLen(monad)] = last.arg.delta.v
        /\ monad.solid = last.arg.solid

\* An explicit delta was pushed that differs from the delta inference would
\* have recorded for the replacement solid.
C8_Witness ==
    /\ AppliedTagged
    /\ monad.transformation_stack.v[StackLen(monad)] # InferredByLast

\* C9 (as claimed): a tracker constructed from the solid alone has a stack
\* holding exactly the solid's origin and a combined_origin equal to it.
C9_CreateSeedsStack ==
    (last.op = "create" /\ last.arg.kind = "default") =>
        /\ monad.transformation_stack = PyList(<<monad.solid.origin>>)
        /\ monad.combined_origin = PyList(monad.solid.origin)

\* C10: undo_mutably on an empty stack raises IndexError, returns nothing and
\* leaves the tracker as it was.
C10_UndoOnEmptyFails ==
    [][(last'.op = "undo" /\ monad.transformation_stack = PyList(<<>>)) =>
          /\ exc' = "IndexError"
          /\ last'.exc = "IndexError"
          /\ last'.ret = NoReturn
          /\ monad' = monad]_vars

\* undo_mutably was called on an empty stack.
C10_Witness ==
    /\ last.op = "undo" /\ last.exc = "IndexError"
    /\ monad.transformation_stack = PyList(<<>>)

\* The value transform_func returned is none of: a solid, a ResultWithDelta,
\* a non-empty list whose first element is a solid.
Unrecognised(res) ==
    \/ res.kind \in {"None", "dict"}
    \/ res.kind = "list" /\ (Len(res.items) = 0 \/ ~HasOrigin(res.items[1]))

\* The exceptions the structural match of apply_mutably raises; they stand
\* for InvalidOperationResultError.
InvalidOperationResultError == {"TypeError", "IndexError", "AttributeError"}

\* C11 (as claimed): apply_mutably raises whenever transform_func returns an
\* unrecognised value.
C11_UnrecognisedFails ==
    [][(last'.op = "apply" /\ Unrecognised(last'.arg)) =>
          /\ last'.exc \in InvalidOperationResultError
          /\ last'.ret = NoReturn]_vars

\* C11 (amended): apply_mutably raises, returns nothing and leaves the
\* tracker as it was when transform_func returns None (TypeError), an empty
\* list (IndexError) or a list whose first element has no origin
\* (AttributeError).
C11_UnindexableFails ==
    [][(last'.op = "apply" /\ Unrecognised(last'.arg) /\ last'.arg.kind # "dict") =>
          /\ last'.exc \in InvalidOperationResultError
          /\ exc' = last'.exc
          /\ last'.ret = NoReturn
          /\ monad' = monad
          /\ last'.exc = CASE last'.arg.kind = "None" -> "TypeError"
                           [] Len(last'.arg.items) = 0 -> "IndexError"
                           [] OTHER -> "AttributeError"]_vars

\* transform_func returned a list that starts with something that is not a
\* solid, and apply_mutably raised on a tracker that already has entries.
C11_Witness ==
    /\ last.op = "apply" /\ last.arg.kind = "list"
    /\ Len(last.arg.items) = 2 /\ ~HasOrigin(last.arg.items[1])
    /\ last.exc = "AttributeError" /\ exc = "AttributeError"
    /\ IsList(monad.transformation_stack) /\ StackLen(monad) = 1

\* C12 (as claimed): when transform_func returns a list whose first element
\* is a solid, apply_mutably makes that element the solid and returns, next
\* to the tracker, the remaining elements in order, without the solid.
C12_BundleRest ==
    (last.op = "apply" /\ last.exc = NoExc /\ last.arg.kind = "list") =>
        /\ monad.solid = last.arg.items[1]
        /\ last.ret.rest = Tail(last.arg.items)

\* The solid transform_func handed back in `res`.
Replacement(res) ==
    IF res.kind \in {"list", "dict"} THEN res.items[1] ELSE res.solid

\* C13: a successful undo_mutably returns self and a successful
\* apply_mutably returns a tuple whose first component is self, and the call
\* has changed that very object: the tracker the caller has held from the
\* start has one entry less after the undo, and one entry more and the
\* replacement solid after the apply.
C13_SameInstance ==
    [][/\ (last'.op = "undo" /\ last'.exc = NoExc) =>
             /\ last'.ret = [kind |-> "self"]
             /\ monad'.transformation_stack.v =
                    SubSeq(monad.transformation_stack.v, 1, StackLen(monad) - 1)
       /\ (last'.op = "apply" /\ last'.exc = NoExc) =>
             /\ last'.ret.kind = "tuple" /\ last'.ret.first = "self"
             /\ StackLen(monad') = StackLen(monad) + 1
             /\ SubSeq(monad'.transformation_stack.v, 1, StackLen(monad)) =
                    monad.transformation_stack.v
             /\ monad'.solid = Replacement(last'.arg)]_vars

\* An undo returned the tracker after an apply had been made on it: of the
\* two entries the stack had, one is left.
C13_Witness ==
    /\ last.op = "undo" /\ last.exc = NoExc /\ last.ret = [kind |-> "self"]
    /\ StackLen(monad) = 1

\* C15: a with-block in which neither apply_mutably nor undo_mutably is
\* called (and no with-block is entered) and which ends normally makes no
\* undo_mutably call and leaves the stack, the solid and combined_origin as
\* they were when it was entered.
C15_EmptyBlockIsNoop ==
    [][(ExitsNormally /\ Top.pure /\ Top.applies = 0) =>
          /\ last'.calls = 0
          /\ last'.exc = NoExc
          /\ monad'.transformation_stack = Top.entry.transformation_stack
          /\ monad'.solid = Top.entry.solid
          /\ monad'.combined_origin = Top.entry.combined_origin]_vars

\* A with-block without any call in it ended normally on a tracker that
\* had two entries on its stack.
C15_Witness ==
    /\ last.op = "exit" /\ last.arg.kind = NoExc
    /\ last.block.pure /\ last.block.applies = 0
    /\ StackLen(monad) = 2

\* C17: __enter__ returns self and changes nothing of the tracker but its
\* checkpoint, so the name bound by the with statement is the tracker it was
\* entered on; the applies made in the block are on the stack of that
\* tracker, on top of the entries it had at __enter__.
C17_EnterYieldsSelf ==
    [][/\ (last'.op = "enter" /\ last'.exc = NoExc) =>
             /\ last'.ret = [kind |-> "self"]
             /\ monad' = [monad EXCEPT !.checkpoint = StackLen(monad)]
       /\ (Len(scopes') > 0 /\ scopes'[Len(scopes')].pure) =>
             /\ StackLen(monad') =
                    scopes'[Len(scopes')].len + scopes'[Len(scopes')].applies
             /\ SubSeq(monad'.transformation_stack.v, 1, scopes'[Len(scopes')].len) =
                    scopes'[Len(scopes')].entry.transformation_stack.v]_vars

\* Two applies made in a with-block are on the stack of the tracker the
\* block was entered on.
C17_Witness ==
    /\ Depth > 0 /\ Top.pure /\ Top.applies = 2
    /\ last.op = "apply" /\ last.exc = NoExc
    /\ StackLen(monad) = Top.len + 2

\* C14: the tracker clone returns holds the solid of the original, and
\* from then on no apply_mutably or undo_mutably call on one of the two
\* changes the stack or combined_origin of the other.
C14_CloneIndependent ==
    [][/\ (last'.op = "clone" /\ last'.exc = NoExc) =>
             /\ twin'.on
             /\ twin'.m.solid = monad.solid
             /\ monad' = monad
       /\ last'.op \in {"twin.apply", "twin.undo"} =>
             /\ monad'.transformation_stack = monad.transformation_stack
             /\ monad'.combined_origin = monad.combined_origin
       /\ (twin.on /\ last'.op \in {"apply", "undo"}) =>
             /\ twin'.m.transformation_stack = twin.m.transformation_stack
             /\ twin'.m.combined_origin = twin.m.combined_origin]_vars

\* An apply on the original after it was cloned: the original has two
\* entries, the clone the one it was made with.
C14_Witness ==
    /\ twin.on /\ last.op = "apply" /\ last.exc = NoExc
    /\ StackLen(monad) = 2 /\ StackLen(twin.m) = 1

\* C18 (as claimed): clone of a tracker whose fields are lists returns a
\* tracker with the same stack (same entries in the same order, whatever
\* the length) and the same combined_origin.
C18_ClonePreserves ==
    [][(last'.op = "clone" /\ IsList(monad.transformation_stack)) =>
          /\ last'.exc = NoExc
          /\ twin'.m.transformation_stack = monad.transformation_stack
          /\ twin'.m.combined_origin = monad.combined_origin]_vars

VecAdd(a, b) == <<a[1] + b[1], a[2] + b[2], a[3] + b[3]>>

\* The stack after the translations by [5,0,0] and [0,3,0] of a tracker
\* made around a solid at the identity frame.
TwoMoves == <<I4, to_matrix(<<5, 0, 0>>), to_matrix(<<0, 3, 0>>)>>

C19_ExitRestoresCheckpoint ==
    [][(ExitsNormally /\ Top.flat) => StackLen(monad') = Top.len]_vars

\* C19 (amended): at the normal end of such a block the checkpoint is the
\* stack length recorded at __enter__.  If the stack is at least that long,
\* __exit__ makes (length - checkpoint) undo_mutably calls and leaves the
\* stack at the checkpoint; if undos have made it shorter, __exit__ makes
\* no call and the tracker stays as it is, shorter than the checkpoint.
C19_ExitUnwindsDownTo ==
    [][(ExitsNormally /\ Top.flat) =>
          /\ monad.checkpoint = Top.len
          /\ last'.exc = NoExc
          /\ IF StackLen(monad) >= Top.len
             THEN /\ last'.calls = StackLen(monad) - Top.len
                  /\ StackLen(monad') = Top.len
             ELSE /\ last'.calls = 0
                  /\ monad' = monad]_vars

\* A block in which more undos than applies were made ended normally: the
\* stack is shorter than it was at __enter__.
C19_Witness ==
    /\ last.op = "exit" /\ last.arg.kind = NoExc /\ last.block.flat
    /\ last.calls = 0
    /\ StackLen(monad) < last.block.len

\* C20 (as claimed): a with-block is entered, applies are made, a second
\* with-block is entered on the same tracker, applies are made, and the
\* inner and then the outer block end normally: after the outer __exit__
\* the stack is as long as it was at the outer __enter__.  (The step is the
\* outer __exit__; the call before it was the inner one.)
C20_NestedBlocksUnwind ==
    [][(/\ last.op = "exit" /\ last.arg.kind = NoExc
        /\ last.block.pure /\ last.block.applies >= 1
        /\ ExitsNormally
        /\ Top.pure /\ ~Top.flat /\ Top.applies >= 1) =>
          StackLen(monad') = Top.len]_vars

\* C21 (as claimed): dividing a product by its right factor gives the left
\* factor back: divmatrix(multmatrix(p, d), d) = p, for every p and d.  (The
\* step divides by d the value that multmatrix(p, d) has just returned.)
C21_DecomposeUndoesCompose ==
    [][(/\ last.op = "multmatrix" /\ last'.op = "divmatrix"
        /\ last'.arg.b = last.arg.b) =>
          last'.ret.m = last.arg.a]_vars

IsTranslation(m) == m = to_matrix(to_translation_vector(m))

\* C29: to_matrix(v) is the identity matrix with v in the last column of
\* its first three rows; to_translation_vector gives v back; the product of
\* two such matrices is the matrix of the sum of their vectors.
C29_TranslationMatrix ==
    [][/\ last'.op = "to_matrix" =>
             /\ \A i \in 1..3 : \A j \in 1..3 : last'.ret.m[i][j] = I4[i][j]
             /\ \A i \in 1..3 : last'.ret.m[i][4] = last'.arg.v[i]
             /\ last'.ret.m[4] = <<0, 0, 0, 1>>
             /\ to_translation_vector(last'.ret.m) = last'.arg.v
       /\ (last.op = "to_matrix" /\ last'.op = "to_translation_vector") =>
             last'.ret.v = last.arg.v
       /\ (/\ last'.op = "multmatrix"
           /\ IsTranslation(last'.arg.a) /\ IsTranslation(last'.arg.b)) =>
             last'.ret.m = to_matrix(VecAdd(to_translation_vector(last'.arg.a),
                                            to_translation_vector(last'.arg.b)))]_vars

\* to_matrix([5,0,0]) was composed with to_matrix([0,3,0]): the product is
\* to_matrix([5,3,0]).
C29_Witness ==
    /\ last.op = "multmatrix"
    /\ last.arg = [kind |-> "pair", a |-> to_matrix(<<5, 0, 0>>), b |-> to_matrix(<<0, 3, 0>>)]
    /\ to_translation_vector(last.ret.m) = <<5, 3, 0>>

\* The last call was a successful apply whose function returned a bare
\* solid or a list starting with a solid: the delta was inferred.
AppliedInferred ==
    /\ last.op = "apply" /\ last.exc = NoExc
    /\ last.arg.kind \in {"Openscad", "list"}

\* C23: after an apply whose function returned a bare solid or a list,
\* combined_origin is the origin of the replacement solid, whatever it was
\* before the call.
C23_InferredReachesFrame ==
    AppliedInferred =>
        /\ monad.combined_origin.v = Replacement(last.arg).origin
        /\ monad.combined_origin.v = monad.solid.origin

\* Before the apply an override delta had left combined_origin different
\* from the origin of the solid held; the apply brought them together.
C23_Witness ==
    /\ AppliedInferred
    /\ mark.on /\ mark.ups = 1 /\ mark.downs = 0
    /\ mark.base.combined_origin.v # mark.base.solid.origin
    /\ monad.combined_origin.v = monad.solid.origin

\* C24: when transform_func raises, or apply_mutably fails on an
\* unrecognised value, the exception leaves apply_mutably as it was raised,
\* nothing is returned and the stack, combined_origin and the solid are what
\* they were before the call.
C24_FailedApplyChangesNothing ==
    [][(/\ last'.op = "apply" /\ last'.exc # NoExc
        /\ last'.arg.kind = "raise" \/ Unrecognised(last'.arg)) =>
          /\ monad'.transformation_stack = monad.transformation_stack
          /\ monad'.combined_origin = monad.combined_origin
          /\ monad'.solid = monad.solid
          /\ exc' = last'.exc
          /\ last'.arg.kind = "raise" => last'.exc = "OpError"
          /\ last'.ret = NoReturn]_vars

\* transform_func raised on a tracker that holds a delta on top of its seed;
\* its exception is in flight and both entries are still there.
C24_Witness ==
    /\ last.op = "apply" /\ last.arg.kind = "raise"
    /\ last.exc = "OpError" /\ exc = "OpError"
    /\ IsList(monad.transformation_stack) /\ StackLen(monad) = 2

\* C25: a successful apply_mutably appends exactly one entry to the stack
\* and leaves the entries below as they were, composes that entry onto
\* combined_origin on the right, and makes the replacement the solid.
C25_ApplyPushesOne ==
    [][(last'.op = "apply" /\ last'.exc = NoExc) =>
          LET before == monad.transformation_stack.v
              after == monad'.transformation_stack.v
          IN  /\ Len(after) = Len(before) + 1
              /\ SubSeq(after, 1, Len(before)) = before
              /\ monad'.combined_origin.v =
                     multmatrix(monad.combined_origin.v, after[Len(after)])
              /\ monad'.solid = Replacement(last'.arg)]_vars

\* A ResultWithDelta was applied on the seeded tracker: its delta lies on
\* top of the seed, differs from it, and combined_origin is their product.
C25_Witness ==
    /\ last.op = "apply" /\ last.exc = NoExc /\ last.arg.kind = "ResultWithDelta"
    /\ StackLen(monad) = 2
    /\ monad.transformation_stack.v[1] # monad.transformation_stack.v[2]
    /\ monad.combined_origin.v =
           multmatrix(monad.transformation_stack.v[1], monad.transformation_stack.v[2])
    /\ monad.solid = last.arg.solid

\* The origin of a solid after the inverses of the last n entries of the
\* stack have been applied to it, the newest entry first.
RECURSIVE Reverted(_, _, _)
Reverted(origin, stack, n) ==
    IF n = 0 THEN origin
    ELSE Reverted(MatMul(origin, MatInverse(stack[Len(stack)])),
                  SubSeq(stack, 1, Len(stack) - 1), n - 1)

\* C26: a successful undo_mutably removes the newest entry of the stack,
\* leaves the entries below it as they were and applies the inverse of the
\* removed entry to the solid; a normal exit that makes n calls of
\* undo_mutably removes the n newest entries and applies their inverses to
\* the solid from the newest to the oldest.
C26_UndoIsLifo ==
    [][LET stack == monad.transformation_stack.v
       IN  /\ (last'.op = "undo" /\ last'.exc = NoExc) =>
                 /\ Len(stack) > 0
                 /\ monad'.transformation_stack.v = SubSeq(stack, 1, Len(stack) - 1)
                 /\ monad'.solid.origin =
                        MatMul(monad.solid.origin, MatInverse(stack[Len(stack)]))
           /\ (ExitsNormally /\ last'.exc = NoExc) =>
                 /\ last'.calls <= Len(stack)
                 /\ monad'.transformation_stack.v =
                        SubSeq(stack, 1, Len(stack) - last'.calls)
                 /\ monad'.solid.origin =
                        Reverted(monad.solid.origin, stack, last'.calls)]_vars

\* A block that was entered on an empty stack and applied two deltas has
\* ended normally: its exit called undo_mutably twice and the stack is
\* empty again.
C26_Witness ==
    /\ last.op = "exit" /\ last.exc = NoExc /\ last.arg.kind = NoExc
    /\ last.calls = 2
    /\ StackLen(monad) = 0

\* C27 (as claimed): apply_mutably returns the tracker alone when
\* transform_func returned a native solid, and otherwise a tuple of the
\* tracker and the values passed through.
C27_ReturnShape ==
    (last.op = "apply" /\ last.exc = NoExc) =>
        IF last.arg.kind = "Openscad"
        THEN last.ret = [kind |-> "self"]
        ELSE last.ret.kind = "tuple" /\ last.ret.first = "self"

\* C28: a normal exit from a with-block calls undo_mutably at most as often
\* as the stack has entries, whatever was applied and undone inside the
\* block and in the blocks nested in it, and raises nothing.
C28_UnwindNeverUnderflows ==
    [][ExitsNormally =>
          /\ last'.calls <= StackLen(monad)
          /\ last'.exc = NoExc
          /\ exc' = NoExc]_vars

\* Undos inside the block took the stack below the checkpoint: the exit
\* called undo_mutably not once.
C28_Witness ==
    /\ last.op = "exit" /\ last.arg.kind = NoExc /\ last.exc = NoExc
    /\ last.calls = 0
    /\ StackLen(monad) < monad.checkpoint

====
